---- MODULE Spec2Model ----
(***************************************************************************)
(* A model of MasterShaderNodeGen.py: the value normalizers, the property  *)
(* introspector, the node serializer, the material graph exporter, the     *)
(* catalog generator and the script's main block.                          *)
(*                                                                         *)
(* Host values (what bpy hands to the script) are records tagged by kind:  *)
(*   None, bool, int, float (in tenths), str, seq (anything with __len__   *)
(*   that is not text: list, tuple, bpy_prop_array, Vector, ...), object   *)
(*   (any other instance; cls is its class name).                          *)
(* An exception leaving a function is the value Raised.                    *)
(***************************************************************************)
EXTENDS Integers, Sequences, FiniteSets, TLC

VARIABLES
    value,      \* normalizers: the host value handed to both normalizers
    sock_norm,  \* normalizers: results of successive get_socket_default_value
    prop_norm,  \* normalizers: results of successive get_property_info reads
    host_node,  \* node serializer: the host node handed to it
    node_doc,   \* node serializer: what export_node_to_dict produced
    node_info,  \* node serializer: the catalog entry built for the node's type
    materials,      \* host: bpy.data.materials, name -> material
    request,        \* exporter: the arguments of the call
    export_result,  \* exporter: what export_material_nodes_to_json produced
    nodes_visited,  \* exporter: how many nodes export_node_to_dict was called on
    files,          \* the files written, path -> content
    registry,           \* host: the types of bpy.types, in dir() order
    discovery_raises,   \* host: whether walking bpy.types raises
    gen_filepath,       \* catalog: the argument of the call
    gen_pc,             \* catalog: where generate_master_shader_nodes_json is
    temp_mat,           \* catalog: the name of the scratch material
    shader_node_types,  \* catalog: the candidates, sorted
    gen_index,          \* catalog: the candidate the loop is at
    visited,            \* catalog: the candidates the loop has reached
    master_data,        \* catalog: the document under construction
    gen_result,         \* catalog: what the call produced
    context,            \* host: bpy.context.active_object
    main_pc             \* main block: where it is

norm_vars == <<value, sock_norm, prop_norm>>
node_vars == <<host_node, node_doc, node_info>>
export_vars == <<request, export_result, nodes_visited>>
host_vars == <<materials, files>>
cat_vars == <<registry, discovery_raises, gen_filepath, gen_pc, temp_mat,
              shader_node_types, gen_index, visited, master_data, gen_result>>
main_vars == <<context, main_pc>>

vars == <<norm_vars, node_vars, export_vars, host_vars, cat_vars, main_vars>>

----------------------------------------------------------------------------
(* Bounds *)

MaxLen == 2          \* longest host sequence value
MaxLinks == 2        \* most links on one output socket
MaxNodes == 2        \* most nodes in a material's node tree
MaxTreeLinks == 2    \* most links in a material's node tree
MaxTypes == 3        \* most registered shader node types
Reapplications == 2  \* how many times a normalizer is applied in a row

----------------------------------------------------------------------------
(* Host values *)

NoneVal == [kind |-> "None"]
BoolVal(b) == [kind |-> "bool", b |-> b]
IntVal(n) == [kind |-> "int", n |-> n]
FloatVal(t) == [kind |-> "float", tenths |-> t]
StrVal(s) == [kind |-> "str", s |-> s]
ObjectVal(c, hn, nm) == [kind |-> "object", cls |-> c, has_name |-> hn, name |-> nm]
SeqVal(c, l, xs) == [kind |-> "seq", cls |-> c, listable |-> l, items |-> xs]
Raised == [exc |-> TRUE]

class_name(val) ==
    CASE val.kind = "None" -> "NoneType"
      [] val.kind \in {"bool", "int", "float", "str"} -> val.kind
      [] OTHER -> val.cls

has_len(val) == val.kind \in {"seq", "str"}

isinstance_primitive(val) == val.kind \in {"bool", "int", "float", "str"}

\* list(val): a new list of the same items; raises for a broken sequence
list_of(val) == IF val.listable THEN SeqVal("list", TRUE, val.items) ELSE Raised

\* getattr(val, 'name', 'unnamed')
name_or_unnamed(val) ==
    IF val.kind = "object" /\ val.has_name THEN val.name ELSE "unnamed"

SocketRefClasses ==
    {"Image", "Object", "Collection", "Material", "Texture", "NodeTree"}

PropertyRefClasses ==
    {"CurveMapping", "ColorMapping", "Image", "NodeTree", "Object",
     "Collection", "Material", "Texture"}

\* A socket as the normalizer sees it: it may lack the attribute altogether
Socket(has, val) == [has_default |-> has, default_value |-> val]

\* the normalizer returning repr(val) for text
get_socket_default_value_repr(socket) ==
    IF ~socket.has_default THEN NoneVal
    ELSE LET val == socket.default_value IN
         IF val = NoneVal THEN NoneVal
         ELSE IF class_name(val) \in SocketRefClasses
         THEN StrVal("<" \o class_name(val) \o ": " \o name_or_unnamed(val) \o ">")
         ELSE IF has_len(val) /\ val.kind # "str"
         THEN (IF list_of(val) = Raised THEN NoneVal ELSE list_of(val))
         ELSE IF val.kind = "str" THEN StrVal("'" \o val.s \o "'")
         ELSE IF isinstance_primitive(val) THEN val
         ELSE NoneVal

get_socket_default_value(socket) ==
    IF ~socket.has_default THEN NoneVal
    ELSE LET val == socket.default_value IN
         IF val = NoneVal THEN NoneVal
         ELSE IF class_name(val) \in SocketRefClasses
         THEN StrVal("<" \o class_name(val) \o ": " \o name_or_unnamed(val) \o ">")
         ELSE IF has_len(val) /\ val.kind # "str"
         THEN (IF list_of(val) = Raised THEN NoneVal ELSE list_of(val))
         ELSE IF isinstance_primitive(val) THEN val
         ELSE NoneVal

RECURSIVE is_json_serializable(_)
is_json_serializable(val) ==
    IF val.kind = "None" \/ isinstance_primitive(val) THEN TRUE
    ELSE IF val.kind = "seq" /\ val.cls \in {"list", "tuple"}
    THEN \A i \in 1..Len(val.items) : is_json_serializable(val.items[i])
    ELSE FALSE

\* Lines 54-82 of get_property_info: the current_value entry.  `got` is what
\* getattr(node, prop.identifier) produced, Raised when the read failed.
current_value_of(got) ==
    IF got = Raised THEN NoneVal
    ELSE IF class_name(got) \in PropertyRefClasses
    THEN StrVal("<" \o class_name(got) \o ">")
    ELSE IF has_len(got) /\ got.kind # "str"
    THEN (IF list_of(got) = Raised THEN NoneVal
          ELSE IF is_json_serializable(list_of(got)) THEN list_of(got)
          ELSE NoneVal)
    ELSE IF is_json_serializable(got) THEN got
    ELSE NoneVal

----------------------------------------------------------------------------
(* Property Introspector: get_property_info *)

Empty == <<>>

\* A property descriptor of bl_rna.properties
Descriptor(id, nm, ty, enum, alen, lo, hi) ==
    [identifier |-> id, name |-> nm, type |-> ty, description |-> "",
     enum_items |-> enum, has_array_length |-> TRUE, array_length |-> alen,
     has_hard_min |-> TRUE, hard_min |-> lo, has_hard_max |-> TRUE, hard_max |-> hi]

\* getattr(node, identifier): the attribute's value, Raised when the read fails
node_getattr(node, id) ==
    IF id \in DOMAIN node.values THEN node.values[id]
    ELSE ObjectVal("bpy_struct", FALSE, "")

\* Raised when reading the descriptor's metadata fails (node.broken names
\* the descriptors for which it does)
get_property_info(node, prop) ==
    IF prop.identifier \in node.broken THEN Raised
    ELSE
      [identifier |-> prop.identifier, name |-> prop.name, type |-> prop.type,
       description |-> prop.description,
       current_value |-> current_value_of(node_getattr(node, prop.identifier))]
      @@ (IF prop.type = "ENUM" THEN [enum_items |-> prop.enum_items] ELSE Empty)
      @@ (IF prop.type \in {"FLOAT", "INT"} /\ prop.has_array_length
             /\ prop.array_length > 0
          THEN [array_length |-> prop.array_length] ELSE Empty)
      @@ (IF prop.type \in {"FLOAT", "INT"} /\ prop.has_hard_min
          THEN [min |-> prop.hard_min] ELSE Empty)
      @@ (IF prop.type \in {"FLOAT", "INT"} /\ prop.has_hard_max
          THEN [max |-> prop.hard_max] ELSE Empty)

----------------------------------------------------------------------------
(* The host's node classes: sockets, bases and declared properties *)

ToSet(s) == {s[i] : i \in 1..Len(s)}

\* the identifiers every node declares through the generic node interface
NodeBaseProps ==
    <<"rna_type", "type", "name", "label", "location", "dimensions",
      "inputs", "internal_links">>

ShaderNodeBase == [has_bl_rna |-> TRUE, properties |-> NodeBaseProps]
PlainMixin == [has_bl_rna |-> FALSE, properties |-> <<>>]

SocketTemplate(nm, id, ty, has, val) ==
    [name |-> nm, identifier |-> id, type |-> ty, has_default |-> has,
     default_value |-> val, enabled |-> TRUE, hide |-> FALSE, hide_value |-> FALSE]

ColorVal == SeqVal("bpy_prop_array", TRUE, <<FloatVal(8), FloatVal(8), FloatVal(8), FloatVal(10)>>)
VectorVal == SeqVal("Vector", TRUE, <<FloatVal(0), FloatVal(0), FloatVal(0)>>)

FacIn == SocketTemplate("Fac", "Fac", "VALUE", TRUE, FloatVal(5))
ColorIn == SocketTemplate("Color", "Color", "RGBA", TRUE, ColorVal)
VectorIn == SocketTemplate("Vector", "Vector", "VECTOR", TRUE, VectorVal)
ShaderIn1 == SocketTemplate("Shader", "Shader", "SHADER", FALSE, NoneVal)
ShaderIn2 == SocketTemplate("Shader", "Shader_001", "SHADER", FALSE, NoneVal)
ColorOut == SocketTemplate("Color", "Color", "RGBA", TRUE, ColorVal)
AlphaOut == SocketTemplate("Alpha", "Alpha", "VALUE", TRUE, FloatVal(0))
ShaderOut == SocketTemplate("Shader", "Shader", "SHADER", FALSE, NoneVal)

OwnDescriptor(id) ==
    CASE id = "color_ramp" -> Descriptor(id, "Color Ramp", "POINTER", <<>>, 0, 0, 0)
      [] id = "mapping" -> Descriptor(id, "Mapping", "POINTER", <<>>, 0, 0, 0)
      [] id = "image" -> Descriptor(id, "Image", "POINTER", <<>>, 0, 0, 0)
      [] id = "interpolation" ->
            Descriptor(id, "Interpolation", "ENUM", <<"Linear", "Closest", "Cubic">>, 0, 0, 0)
      [] id = "projection_blend" ->
            Descriptor(id, "Projection Blend", "FLOAT", <<>>, 0, 0, 1)
      [] OTHER -> Descriptor(id, id, "POINTER", <<>>, 0, 0, 0)

NodeClass(ty, label, bases, ins, outs, own) ==
    [type |-> ty, bl_label |-> label, bases |-> bases, inputs |-> ins,
     outputs |-> outs, own |-> own]

ClassDef(c) ==
    CASE c = "ShaderNodeValToRGB" ->
            NodeClass("VALTORGB", "Color Ramp", <<ShaderNodeBase>>,
                      <<FacIn>>, <<ColorOut, AlphaOut>>, <<"color_ramp">>)
      [] c = "ShaderNodeRGBCurve" ->
            NodeClass("CURVE_RGB", "RGB Curves", <<ShaderNodeBase>>,
                      <<FacIn, ColorIn>>, <<ColorOut>>, <<"mapping">>)
      [] c = "ShaderNodeTexImage" ->
            NodeClass("TEX_IMAGE", "Image Texture", <<PlainMixin, ShaderNodeBase>>,
                      <<VectorIn>>, <<ColorOut, AlphaOut>>,
                      <<"image", "interpolation", "projection_blend">>)
      [] OTHER ->
            NodeClass("MIX_SHADER", "Mix Shader", <<ShaderNodeBase>>,
                      <<FacIn, ShaderIn1, ShaderIn2>>, <<ShaderOut>>, <<>>)

NodeClasses ==
    {"ShaderNodeValToRGB", "ShaderNodeRGBCurve", "ShaderNodeTexImage",
     "ShaderNodeMixShader"}

\* node.bl_rna.properties: the inherited descriptors, then the class's own
bl_rna_properties(c) ==
    [i \in 1..Len(NodeBaseProps) |-> OwnDescriptor(NodeBaseProps[i])]
    \o [i \in 1..Len(ClassDef(c).own) |-> OwnDescriptor(ClassDef(c).own[i])]

\* what a fresh node of the class holds in its own properties
DefaultValue(id) ==
    CASE id = "color_ramp" -> ObjectVal("ColorRamp", FALSE, "")
      [] id = "mapping" -> ObjectVal("CurveMapping", FALSE, "")
      [] id = "image" -> NoneVal
      [] id = "interpolation" -> StrVal("Linear")
      [] id = "projection_blend" -> FloatVal(0)
      [] OTHER -> NoneVal

ImageVal == ObjectVal("Image", TRUE, "wood.png")

----------------------------------------------------------------------------
(* Node Serializer: export_node_to_dict *)

SkippedIdentifiers == {"rna_type", "dimensions", "internal_links"}

\* the test of line 160 inverted: only the bases without bl_rna are read
parent_props_of_plain_bases(c) ==
    UNION {ToSet(ClassDef(c).bases[i].properties) :
             i \in {j \in 1..Len(ClassDef(c).bases) : ~ClassDef(c).bases[j].has_bl_rna}}

\* lines 158-162 and 313-317: the identifiers declared by the direct bases
parent_props_of(c) ==
    UNION {ToSet(ClassDef(c).bases[i].properties) :
             i \in {j \in 1..Len(ClassDef(c).bases) : ClassDef(c).bases[j].has_bl_rna}}

\* the input socket's document without the test of line 125
input_socket_to_dict_always_links(inp) ==
    [name |-> inp.name, identifier |-> inp.identifier, type |-> inp.type,
     default_value |-> get_socket_default_value(inp), enabled |-> inp.enabled,
     hide |-> inp.hide, hide_value |-> inp.hide_value,
     is_linked |-> TRUE,
     links |-> [i \in 1..Len(inp.links) |->
                  [from_node |-> inp.links[i].from_node,
                   from_socket |-> inp.links[i].from_socket.name]]]

\* lines 115-134
input_socket_to_dict(inp) ==
    [name |-> inp.name, identifier |-> inp.identifier, type |-> inp.type,
     default_value |-> get_socket_default_value(inp), enabled |-> inp.enabled,
     hide |-> inp.hide, hide_value |-> inp.hide_value]
    @@ (IF inp.is_linked
        THEN [is_linked |-> TRUE,
              links |-> [i \in 1..Len(inp.links) |->
                           [from_node |-> inp.links[i].from_node,
                            from_socket |-> inp.links[i].from_socket.name]]]
        ELSE Empty)

\* lines 139-154
output_socket_to_dict(out) ==
    [name |-> out.name, identifier |-> out.identifier, type |-> out.type,
     default_value |-> get_socket_default_value(out), enabled |-> out.enabled,
     hide |-> out.hide]
    @@ (IF out.is_linked
        THEN [is_linked |-> TRUE,
              links |-> [i \in 1..Len(out.links) |->
                           [to_node |-> out.links[i].to_node,
                            to_socket |-> out.links[i].to_socket.name]]]
        ELSE Empty)

\* lines 164-173: the identifiers whose PropertyDocument is recorded
recorded_properties(node) ==
    {id \in {p.identifier : p \in ToSet(bl_rna_properties(node.bl_idname))} :
        /\ id \notin parent_props_of(node.bl_idname)
        /\ id \notin SkippedIdentifiers
        /\ get_property_info(node, OwnDescriptor(id)) # Raised}

\* lines 175, 192, 203: the attribute the type-specific branch reads, "" if
\* the node's type has no such branch
extension_attr(node) ==
    CASE ClassDef(node.bl_idname).type = "VALTORGB" -> "color_ramp"
      [] ClassDef(node.bl_idname).type = "CURVE_RGB" -> "mapping"
      [] ClassDef(node.bl_idname).type = "TEX_IMAGE" -> "image"
      [] OTHER -> ""

\* lines 175-209: the key the type-specific block is stored under, "" if none
extension_key(node) ==
    CASE ClassDef(node.bl_idname).type = "VALTORGB" -> "color_ramp"
      [] ClassDef(node.bl_idname).type = "CURVE_RGB" -> "curves"
      [] ClassDef(node.bl_idname).type = "TEX_IMAGE"
           /\ node_getattr(node, "image") # NoneVal -> "image"
      [] OTHER -> ""

\* whether building the block raises: the attribute itself cannot be read,
\* or (node.ext_raises) something read beneath it cannot
extension_raises(node) ==
    /\ extension_attr(node) # ""
    /\ \/ node_getattr(node, extension_attr(node)) = Raised
       \/ extension_key(node) # "" /\ node.ext_raises

\* the host data behind the block: two ramp stops, one curve of two points,
\* the referenced image
RampElements ==
    <<[position |-> FloatVal(0), color |-> list_of(ColorVal), alpha |-> FloatVal(10)],
      [position |-> FloatVal(10), color |-> list_of(ColorVal), alpha |-> FloatVal(10)]>>

extension_block(node) ==
    CASE extension_key(node) = "color_ramp" ->
            [color_ramp |->
                [color_mode |-> "RGB", hue_interpolation |-> "NEAR",
                 interpolation |-> "LINEAR", elements |-> RampElements]]
      [] extension_key(node) = "curves" ->
            [curves |->
                <<[points |-> <<[location |-> <<0, 0>>, handle_type |-> "AUTO"],
                                [location |-> <<10, 10>>, handle_type |-> "AUTO"]>>]>>]
      [] extension_key(node) = "image" ->
            [image |->
                [name |-> node_getattr(node, "image").name, filepath |-> "//wood.png",
                 size |-> <<64, 64>>, colorspace_settings |-> [name |-> "sRGB"]]]
      [] OTHER -> Empty

\* lines 98-211.  Raised when reading the type-specific state fails: that
\* block is outside every try.
export_node_to_dict(node) ==
    IF extension_raises(node) THEN Raised
    ELSE
      [name |-> node.name, bl_idname |-> node.bl_idname,
       type |-> ClassDef(node.bl_idname).type, label |-> node.label,
       location |-> list_of(node.location), width |-> node.width,
       height |-> node.height, hide |-> node.hide, mute |-> node.mute,
       inputs |-> [i \in 1..Len(node.inputs) |-> input_socket_to_dict(node.inputs[i])],
       outputs |-> [i \in 1..Len(node.outputs) |-> output_socket_to_dict(node.outputs[i])],
       properties |-> [id \in recorded_properties(node) |->
                         get_property_info(node, OwnDescriptor(id))]]
      @@ extension_block(node)

----------------------------------------------------------------------------
(* Host nodes *)

NotCalled == [called |-> FALSE]

Link(fn, fs, tn, ts) ==
    [from_node |-> fn, from_socket |-> [name |-> fs.name, identifier |-> fs.identifier],
     to_node |-> tn, to_socket |-> [name |-> ts.name, identifier |-> ts.identifier],
     is_valid |-> TRUE, is_hidden |-> FALSE]

\* a socket of a live node: is_linked is the host's report of whether the
\* socket has links
LiveSocket(template, links) ==
    template @@ [is_linked |-> links # <<>>, links |-> links]

\* A node of class c.  unreadable: own properties whose getattr raises;
\* broken: own properties whose descriptor cannot be read; in_links and
\* out_links: per socket, the links the host reports for it.
HostNode(nm, c, unreadable, broken, ext, image, in_links, out_links) ==
    [name |-> nm, bl_idname |-> c, label |-> "", location |-> VectorVal,
     width |-> 140, height |-> 100, hide |-> FALSE, mute |-> FALSE,
     inputs |-> [i \in 1..Len(ClassDef(c).inputs) |->
                   LiveSocket(ClassDef(c).inputs[i], in_links[i])],
     outputs |-> [i \in 1..Len(ClassDef(c).outputs) |->
                   LiveSocket(ClassDef(c).outputs[i], out_links[i])],
     values |-> [id \in ToSet(ClassDef(c).own) |->
                   IF id \in unreadable THEN Raised
                   ELSE IF id = "image" THEN image ELSE DefaultValue(id)],
     broken |-> broken, ext_raises |-> ext]

\* a node whose `image` attribute holds the given value
NodeHolding(val) ==
    [bl_idname |-> "ShaderNodeTexImage", values |-> [id \in {"image"} |-> val],
     broken |-> {}]

NoLinks(n) == [i \in 1..n |-> <<>>]

NormIdle ==
    /\ value = NoneVal
    /\ sock_norm = <<>>
    /\ prop_norm = <<>>

NodeIdle ==
    /\ host_node = NotCalled
    /\ node_doc = NotCalled
    /\ node_info = NotCalled

----------------------------------------------------------------------------
(* Catalog Generator: the body of the per-type loop, lines 284-332 *)

\* temp_tree.nodes.new(type=...): a fresh, unlinked node with default values
FreshNode(c, broken) ==
    HostNode(ClassDef(c).bl_label, c, {}, broken, FALSE, NoneVal,
             NoLinks(Len(ClassDef(c).inputs)), NoLinks(Len(ClassDef(c).outputs)))

\* lines 319-330: the PropertyDocuments appended, in declaration order
catalog_properties(node) ==
    LET kept == SelectSeq(bl_rna_properties(node.bl_idname),
                    LAMBDA p : /\ p.identifier \notin parent_props_of(node.bl_idname)
                               /\ p.identifier \notin SkippedIdentifiers
                               /\ get_property_info(node, p) # Raised)
    IN [i \in 1..Len(kept) |-> get_property_info(node, kept[i])]

\* What the try block of one iteration does with the instantiated node.
\* fails: where an exception escapes to the handler of line 334 ("new":
\* instantiation, "socket": reading a socket, "props": walking the property
\* descriptors), "none" if nowhere.
catalog_node_info(c, node, fails) ==
    IF fails \in {"new", "socket", "props"} THEN Raised
    ELSE
      [bl_idname |-> c, py_class_name |-> c, name |-> ClassDef(c).bl_label,
       label |-> node.label,
       inputs |-> [i \in 1..Len(node.inputs) |->
                     [name |-> node.inputs[i].name, type |-> node.inputs[i].type,
                      identifier |-> node.inputs[i].identifier,
                      default_value |-> get_socket_default_value(node.inputs[i])]],
       outputs |-> [i \in 1..Len(node.outputs) |->
                     [name |-> node.outputs[i].name, type |-> node.outputs[i].type,
                      identifier |-> node.outputs[i].identifier]],
       properties |-> catalog_properties(node)]

----------------------------------------------------------------------------
(* Material Graph Exporter: export_material_nodes_to_json *)

\* inp.links / out.links: the tree's links that end (start) at the socket
links_into(mat, nm, sock) ==
    SelectSeq(mat.links, LAMBDA l : l.to_node = nm
                                    /\ l.to_socket.identifier = sock.identifier)

links_out_of(mat, nm, sock) ==
    SelectSeq(mat.links, LAMBDA l : l.from_node = nm
                                    /\ l.from_socket.identifier = sock.identifier)

\* node_tree.nodes[i] as the serializer sees it
tree_node(mat, i) ==
    LET n == mat.nodes[i]
        c == n.bl_idname IN
    HostNode(n.name, c, {}, {}, n.ext_raises, n.image,
             [s \in 1..Len(ClassDef(c).inputs) |->
                 links_into(mat, n.name, ClassDef(c).inputs[s])],
             [s \in 1..Len(ClassDef(c).outputs) |->
                 links_out_of(mat, n.name, ClassDef(c).outputs[s])])

\* the two ends of the link taken for each other
link_to_dict_swapped(link) ==
    [from_node |-> link.to_node, from_socket |-> link.to_socket.name,
     from_socket_identifier |-> link.to_socket.identifier,
     to_node |-> link.from_node, to_socket |-> link.from_socket.name,
     to_socket_identifier |-> link.from_socket.identifier,
     is_valid |-> link.is_valid, is_hidden |-> link.is_hidden]

\* lines 238-250
link_to_dict(link) ==
    [from_node |-> link.from_node, from_socket |-> link.from_socket.name,
     from_socket_identifier |-> link.from_socket.identifier,
     to_node |-> link.to_node, to_socket |-> link.to_socket.name,
     to_socket_identifier |-> link.to_socket.identifier,
     is_valid |-> link.is_valid, is_hidden |-> link.is_hidden]

\* json.dump(data, f, indent=n) into the opened file
json_file(data, indent) == [indent |-> indent, data |-> data]

\* the first node whose serialization raises, 0 if none does
first_failing_node(mat) ==
    LET bad == {i \in 1..Len(mat.nodes) : export_node_to_dict(tree_node(mat, i)) = Raised}
    IN IF bad = {} THEN 0 ELSE CHOOSE i \in bad : \A j \in bad : i <= j

\* the exporter without the two checks of lines 217-223
export_material_nodes_to_json_unchecked(mats, material_name, filepath) ==
    LET material == IF material_name \in DOMAIN mats THEN mats[material_name]
                    ELSE [use_nodes |-> TRUE, blend_method |-> "OPAQUE",
                          use_backface_culling |-> FALSE, nodes |-> <<>>, links |-> <<>>]
        export_data ==
            [material_name |-> material_name,
             blend_method |-> material.blend_method,
             use_backface_culling |-> material.use_backface_culling,
             nodes |-> [i \in 1..Len(material.nodes) |->
                          export_node_to_dict(tree_node(material, i))],
             links |-> [i \in 1..Len(material.links) |->
                          link_to_dict(material.links[i])]]
    IN IF first_failing_node(material) # 0
       THEN [result |-> Raised, visited |-> first_failing_node(material), written |-> Empty]
       ELSE [result |-> export_data, visited |-> Len(material.nodes),
             written |-> IF filepath = NoneVal THEN Empty
                         ELSE [p \in {filepath} |-> json_file(export_data, 2)]]

\* lines 214-257: the returned value, the number of nodes visited and the
\* files written by one call
export_material_nodes_to_json(mats, material_name, filepath) ==
    IF material_name \notin DOMAIN mats
    THEN [result |-> NoneVal, visited |-> 0, written |-> Empty]
    ELSE IF ~mats[material_name].use_nodes
    THEN [result |-> NoneVal, visited |-> 0, written |-> Empty]
    ELSE
      LET material == mats[material_name]
          export_data ==
            [material_name |-> material_name,
             blend_method |-> material.blend_method,
             use_backface_culling |-> material.use_backface_culling,
             nodes |-> [i \in 1..Len(material.nodes) |->
                          export_node_to_dict(tree_node(material, i))],
             links |-> [i \in 1..Len(material.links) |->
                          link_to_dict(material.links[i])]]
      IN IF first_failing_node(material) # 0
         THEN [result |-> Raised, visited |-> first_failing_node(material),
               written |-> Empty]
         ELSE [result |-> export_data, visited |-> Len(material.nodes),
               written |-> IF filepath = NoneVal THEN Empty
                           ELSE [p \in {filepath} |-> json_file(export_data, 2)]]

ExportIdle ==
    /\ request = NotCalled
    /\ export_result = NotCalled
    /\ nodes_visited = 0

HostIdle ==
    /\ materials = Empty
    /\ files = Empty

CatalogIdle ==
    /\ registry = <<>>
    /\ discovery_raises = FALSE
    /\ gen_filepath = NoneVal
    /\ gen_pc = "idle"
    /\ temp_mat = NoneVal
    /\ shader_node_types = <<>>
    /\ gen_index = 0
    /\ visited = {}
    /\ master_data = NotCalled
    /\ gen_result = NotCalled

MainIdle ==
    /\ context = NotCalled
    /\ main_pc = "idle"

----------------------------------------------------------------------------
(* The host values the normalizers are exercised on *)

Scalars == {BoolVal(TRUE), IntVal(3), FloatVal(5), StrVal("LINEAR")}

NamedRefClasses == SocketRefClasses
UnnamedRefClasses == {"CurveMapping", "ColorMapping"}
OtherClasses == {"ColorRamp"}

Objects ==
    {ObjectVal(c, TRUE, "Thing") : c \in NamedRefClasses}
    \cup {ObjectVal(c, FALSE, "") : c \in NamedRefClasses \cup UnnamedRefClasses \cup OtherClasses}

\* What a host sequence may hold: primitives, None, a nested tuple, a nested
\* Vector (not a list or tuple), an arbitrary struct.
Elements ==
    Scalars \cup {NoneVal, SeqVal("tuple", TRUE, <<IntVal(3)>>),
                  SeqVal("Vector", TRUE, <<FloatVal(5)>>),
                  ObjectVal("ColorRampElement", FALSE, "")}

SeqsUpTo(n) == UNION {[1..k -> Elements] : k \in 0..n}

SeqClasses == {"list", "tuple", "bpy_prop_array"}

HostSequences ==
    {SeqVal(c, TRUE, xs) : c \in SeqClasses, xs \in SeqsUpTo(MaxLen)}
    \cup {SeqVal("bpy_prop_collection", FALSE, <<>>)}

HostValues == {NoneVal} \cup Scalars \cup Objects \cup HostSequences

----------------------------------------------------------------------------
(* Normalizers applied, and applied again to their own result *)

NormInit ==
    /\ value \in HostValues
    /\ sock_norm = <<>>
    /\ prop_norm = <<>>
    /\ NodeIdle /\ ExportIdle /\ HostIdle /\ CatalogIdle /\ MainIdle

Last(s) == s[Len(s)]

NormalizeSocketDefault ==
    /\ Len(sock_norm) < Reapplications
    /\ sock_norm' = Append(sock_norm,
            get_socket_default_value(
                Socket(TRUE, IF sock_norm = <<>> THEN value ELSE Last(sock_norm))))
    /\ UNCHANGED <<value, prop_norm, node_vars, export_vars, host_vars, cat_vars, main_vars>>

NormalizePropertyValue ==
    /\ Len(prop_norm) < Reapplications
    /\ prop_norm' = Append(prop_norm,
            get_property_info(
                NodeHolding(IF prop_norm = <<>> THEN value ELSE Last(prop_norm)),
                OwnDescriptor("image")).current_value)
    /\ UNCHANGED <<value, sock_norm, node_vars, export_vars, host_vars, cat_vars, main_vars>>

NormNext == NormalizeSocketDefault \/ NormalizePropertyValue

SpecNormalize == NormInit /\ [][NormNext]_vars

----------------------------------------------------------------------------
(* C9: the Value Normalizer is idempotent: applying either normalizer to   *)
(* its own result returns that result unchanged.                           *)
NormalizerIdempotent ==
    /\ \A i \in 2..Len(sock_norm) : sock_norm[i] = sock_norm[1]
    /\ \A i \in 2..Len(prop_norm) : prop_norm[i] = prop_norm[1]

\* a tuple was turned into a list, and normalizing the list again kept it
NormalizerIdempotentWitness ==
    /\ value.kind = "seq" /\ value.cls = "tuple" /\ Len(value.items) > 0
    /\ Len(sock_norm) >= 2 /\ Len(prop_norm) >= 2
    /\ sock_norm[1] # value
    /\ sock_norm[2] = sock_norm[1]

(* C6: the socket-default normalizer and the property-value normalizer     *)
(* give the same result for the same host value.                           *)
NormalizersAgree ==
    (Len(sock_norm) >= 1 /\ Len(prop_norm) >= 1) => sock_norm[1] = prop_norm[1]

----------------------------------------------------------------------------
(* The node serializer on one node *)

PeerName(j) == "Peer" \o ToString(j)

\* k links arriving at input socket i of node nm, each from a peer's output
IncomingLinks(nm, c, i, k) ==
    [j \in 1..k |-> Link(PeerName(j), ColorOut, nm, ClassDef(c).inputs[i])]

\* k links leaving output socket i of node nm, each to a peer's input
OutgoingLinks(nm, c, i, k) ==
    [j \in 1..k |-> Link(nm, ClassDef(c).outputs[i], PeerName(j), ShaderIn2)]

HostNodesOf(c) ==
    {HostNode("Node", c, unreadable, broken, ext, image,
              [i \in 1..Len(ClassDef(c).inputs) |-> IncomingLinks("Node", c, i, kin[i])],
              [i \in 1..Len(ClassDef(c).outputs) |-> OutgoingLinks("Node", c, i, kout[i])]) :
        unreadable \in SUBSET ToSet(ClassDef(c).own),
        broken \in SUBSET ToSet(ClassDef(c).own),
        ext \in BOOLEAN,
        image \in (IF c = "ShaderNodeTexImage" THEN {NoneVal, ImageVal} ELSE {NoneVal}),
        kin \in [1..Len(ClassDef(c).inputs) -> 0..1],
        kout \in [1..Len(ClassDef(c).outputs) -> 0..MaxLinks]}

NodeInit ==
    /\ host_node \in UNION {HostNodesOf(c) : c \in NodeClasses}
    /\ node_doc = NotCalled
    /\ node_info = NotCalled
    /\ NormIdle /\ ExportIdle /\ HostIdle /\ CatalogIdle /\ MainIdle

ExportNode ==
    /\ host_node # NotCalled
    /\ node_doc = NotCalled
    /\ node_doc' = export_node_to_dict(host_node)
    /\ UNCHANGED <<host_node, node_info, norm_vars, export_vars, host_vars, cat_vars, main_vars>>

\* one iteration of the catalog loop on the node's class
DescribeNodeType ==
    /\ host_node # NotCalled
    /\ node_info = NotCalled
    /\ \E fails \in {"none", "new", "socket", "props"} :
         node_info' = catalog_node_info(host_node.bl_idname,
                          FreshNode(host_node.bl_idname, host_node.broken), fails)
    /\ UNCHANGED <<host_node, node_doc, norm_vars, export_vars, host_vars, cat_vars, main_vars>>

NodeNext == ExportNode \/ DescribeNodeType

SpecNode == NodeInit /\ [][NodeNext]_vars

----------------------------------------------------------------------------
(* C4: a socket with no connection has no `links` key in its document; a   *)
(* socket with k >= 1 connections has a `links` list of exactly k entries, *)
(* each naming the peer node and peer socket of one of the connections.    *)
LinksKeyMatchesConnections ==
    (node_doc # NotCalled /\ node_doc # Raised) =>
        /\ \A i \in 1..Len(host_node.inputs) :
            LET k == Len(host_node.inputs[i].links)
                d == node_doc.inputs[i] IN
            IF k = 0 THEN "links" \notin DOMAIN d
            ELSE /\ "links" \in DOMAIN d
                 /\ Len(d.links) = k
                 /\ \A j \in 1..k :
                      /\ d.links[j].from_node = host_node.inputs[i].links[j].from_node
                      /\ d.links[j].from_socket = host_node.inputs[i].links[j].from_socket.name
        /\ \A i \in 1..Len(host_node.outputs) :
            LET k == Len(host_node.outputs[i].links)
                d == node_doc.outputs[i] IN
            IF k = 0 THEN "links" \notin DOMAIN d
            ELSE /\ "links" \in DOMAIN d
                 /\ Len(d.links) = k
                 /\ \A j \in 1..k :
                      /\ d.links[j].to_node = host_node.outputs[i].links[j].to_node
                      /\ d.links[j].to_socket = host_node.outputs[i].links[j].to_socket.name

\* a serialized host_node with an unlinked input, a linked input and an output
\* that has two links
LinksKeyMatchesConnectionsWitness ==
    /\ node_doc # NotCalled /\ node_doc # Raised
    /\ \E i \in 1..Len(host_node.inputs) : host_node.inputs[i].links = <<>>
    /\ \E i \in 1..Len(host_node.inputs) : Len(host_node.inputs[i].links) = 1
    /\ \E i \in 1..Len(host_node.outputs) :
         Len(host_node.outputs[i].links) >= 2 /\ Len(node_doc.outputs[i].links) >= 2

(* C7: a failure while reading a property or while building the            *)
(* type-specific block does not keep export_node_to_dict from returning    *)
(* the node's document, with its identity, its sockets and every property *)
(* that was read without failure.                                          *)
NodeDocumentSurvivesFailures ==
    (node_doc # NotCalled) =>
        /\ node_doc # Raised
        /\ node_doc.name = host_node.name
        /\ Len(node_doc.inputs) = Len(host_node.inputs)
        /\ Len(node_doc.outputs) = Len(host_node.outputs)
        /\ DOMAIN node_doc.properties =
              ToSet(ClassDef(host_node.bl_idname).own) \ host_node.broken

(* C5: the properties recorded for a node, in its NodeDocument and in its  *)
(* type's catalog entry, hold no identifier declared on the base node type *)
(* and never rna_type, dimensions or internal_links.                       *)
OnlyOwnProperties ==
    /\ (node_doc # NotCalled /\ node_doc # Raised) =>
          \A id \in DOMAIN node_doc.properties :
              /\ id \notin ToSet(NodeBaseProps)
              /\ id \notin {"rna_type", "dimensions", "internal_links"}
              /\ node_doc.properties[id].identifier = id
    /\ (node_info # NotCalled /\ node_info # Raised) =>
          \A i \in 1..Len(node_info.properties) :
              /\ node_info.properties[i].identifier \notin ToSet(NodeBaseProps)
              /\ node_info.properties[i].identifier
                    \notin {"rna_type", "dimensions", "internal_links"}

\* a node whose document and whose catalog entry both record properties
OnlyOwnPropertiesWitness ==
    /\ node_doc # NotCalled /\ node_doc # Raised
    /\ node_info # NotCalled /\ node_info # Raised
    /\ Cardinality(DOMAIN node_doc.properties) >= 2
    /\ Len(node_info.properties) >= 2

----------------------------------------------------------------------------
(* The material exporter on a host document holding one material or none *)

TreeRoster ==
    <<[name |-> "A", bl_idname |-> "ShaderNodeValToRGB"],
      [name |-> "B", bl_idname |-> "ShaderNodeRGBCurve"],
      [name |-> "C", bl_idname |-> "ShaderNodeTexImage"],
      [name |-> "D", bl_idname |-> "ShaderNodeMixShader"]>>

\* the first n nodes of the roster; `faulty` is the node whose type-specific
\* state cannot be read (0: none)
TreeNodes(n, faulty) ==
    [i \in 1..n |->
        [name |-> TreeRoster[i].name, bl_idname |-> TreeRoster[i].bl_idname,
         ext_raises |-> (i = faulty),
         image |-> IF TreeRoster[i].bl_idname = "ShaderNodeTexImage"
                   THEN ImageVal ELSE NoneVal]]

\* every link that can be drawn between two different nodes among the first n
Edges(n) ==
    {Link(TreeRoster[a].name, ClassDef(TreeRoster[a].bl_idname).outputs[o],
          TreeRoster[b].name, ClassDef(TreeRoster[b].bl_idname).inputs[i]) :
        <<a, o, b, i>> \in
            {t \in (1..n) \X (1..2) \X (1..n) \X (1..3) :
                /\ t[1] # t[3]
                /\ t[2] <= Len(ClassDef(TreeRoster[t[1]].bl_idname).outputs)
                /\ t[4] <= Len(ClassDef(TreeRoster[t[3]].bl_idname).inputs)}}

\* node_tree.links in the host's order: an input socket of a shader node
\* takes at most one link
LinkLists(n) ==
    {ls \in UNION {[1..k -> Edges(n)] : k \in 0..MaxTreeLinks} :
        \A i, j \in 1..Len(ls) :
            (ls[i].to_node = ls[j].to_node
             /\ ls[i].to_socket.identifier = ls[j].to_socket.identifier) => i = j}

HostMaterials ==
    UNION {
        {[use_nodes |-> u, blend_method |-> "OPAQUE", use_backface_culling |-> FALSE,
          nodes |-> TreeNodes(n, faulty), links |-> ls] :
            u \in BOOLEAN, faulty \in 0..n, ls \in LinkLists(n)} :
        n \in 0..MaxNodes}

ExportInit ==
    /\ materials \in {Empty} \cup [{"Material"} -> HostMaterials]
    /\ request \in [material_name : {"Material"},
                    filepath : {NoneVal, StrVal("/tmp/Material_nodes.json")}]
    /\ export_result = NotCalled
    /\ nodes_visited = 0
    /\ files = Empty
    /\ NormIdle /\ NodeIdle /\ CatalogIdle /\ MainIdle

ExportMaterial ==
    /\ request # NotCalled
    /\ export_result = NotCalled
    /\ LET o == export_material_nodes_to_json(materials, request.material_name, request.filepath) IN
         /\ export_result' = o.result
         /\ nodes_visited' = o.visited
         /\ files' = o.written @@ files
    /\ UNCHANGED <<request, materials, norm_vars, node_vars, cat_vars, main_vars>>

ExportNext == ExportMaterial

SpecExport == ExportInit /\ [][ExportNext]_vars

----------------------------------------------------------------------------
(* C3: called with a material name absent from the host document, or with  *)
(* a material that does not use nodes, export_material_nodes_to_json       *)
(* returns None without raising, visits no node and writes no file.        *)
NoDocumentForInvalidMaterial ==
    (/\ export_result # NotCalled
     /\ \/ request.material_name \notin DOMAIN materials
        \/ ~materials[request.material_name].use_nodes)
    => /\ export_result = NoneVal
       /\ nodes_visited = 0
       /\ files = Empty

\* a material that has nodes but does not use them was asked for, with an
\* output path, and the call ended
NoDocumentForInvalidMaterialWitness ==
    /\ export_result = NoneVal
    /\ request.filepath # NoneVal
    /\ request.material_name \in DOMAIN materials
    /\ ~materials[request.material_name].use_nodes
    /\ Len(materials[request.material_name].nodes) >= 2

\* the ConnectionRefs of a socket document, none when it has no `links` key
RefsOf(socket_doc) ==
    IF "links" \in DOMAIN socket_doc THEN socket_doc.links ELSE <<>>

(* C8: the returned document has exactly one LinkDocument per edge of the  *)
(* node graph, and each edge from A to B is also recorded as one           *)
(* ConnectionRef naming A on the matching input socket of B's document and *)
(* one naming B on the matching output socket of A's document.             *)
EdgesRecordedOnce ==
    (export_result \notin {NotCalled, NoneVal, Raised}) =>
        LET mat == materials[request.material_name]
            doc == export_result IN
        /\ Len(doc.links) = Len(mat.links)
        /\ Len(doc.nodes) = Len(mat.nodes)
        /\ \A e \in 1..Len(mat.links) :
              /\ doc.links[e].from_node = mat.links[e].from_node
              /\ doc.links[e].to_node = mat.links[e].to_node
              /\ doc.links[e].from_socket_identifier = mat.links[e].from_socket.identifier
              /\ doc.links[e].to_socket_identifier = mat.links[e].to_socket.identifier
        /\ \A n \in 1..Len(doc.nodes) :
              /\ \A s \in 1..Len(doc.nodes[n].inputs) :
                    LET into == {e \in 1..Len(mat.links) :
                                    /\ mat.links[e].to_node = doc.nodes[n].name
                                    /\ mat.links[e].to_socket.identifier
                                          = doc.nodes[n].inputs[s].identifier}
                        refs == RefsOf(doc.nodes[n].inputs[s]) IN
                    /\ Len(refs) = Cardinality(into)
                    /\ \A e \in into : \E r \in 1..Len(refs) :
                          /\ refs[r].from_node = mat.links[e].from_node
                          /\ refs[r].from_socket = mat.links[e].from_socket.name
              /\ \A s \in 1..Len(doc.nodes[n].outputs) :
                    LET outof == {e \in 1..Len(mat.links) :
                                    /\ mat.links[e].from_node = doc.nodes[n].name
                                    /\ mat.links[e].from_socket.identifier
                                          = doc.nodes[n].outputs[s].identifier}
                        refs == RefsOf(doc.nodes[n].outputs[s]) IN
                    /\ Len(refs) = Cardinality(outof)
                    /\ \A e \in outof : \E r \in 1..Len(refs) :
                          /\ refs[r].to_node = mat.links[e].to_node
                          /\ refs[r].to_socket = mat.links[e].to_socket.name

\* nodes A and B joined by one link from A to B, exported: one LinkDocument,
\* and B's input carries one ConnectionRef back to A
EdgesRecordedOnceWitness ==
    /\ export_result \notin {NotCalled, NoneVal, Raised}
    /\ Len(export_result.nodes) = 2
    /\ Len(export_result.links) = 1
    /\ export_result.links[1].from_node = "A"
    /\ export_result.links[1].to_node = "B"
    /\ \E s \in 1..Len(export_result.nodes[2].inputs) :
          /\ Len(RefsOf(export_result.nodes[2].inputs[s])) = 1
          /\ RefsOf(export_result.nodes[2].inputs[s])[1].from_node = "A"

----------------------------------------------------------------------------
(* Catalog Generator: generate_master_shader_nodes_json *)

\* bpy.app.version
BlenderVersion == <<4, 2, 0>>

\* ".".join(map(str, version))
RECURSIVE join_version(_)
join_version(v) ==
    IF Len(v) = 0 THEN ""
    ELSE IF Len(v) = 1 THEN ToString(v[1])
    ELSE ToString(v[1]) \o "." \o join_version(Tail(v))

\* A type of bpy.types.  Its name is family \o rest; rank is the place of
\* the name in alphabetical order.  fails: what goes wrong when the catalog
\* loop reaches the type ("clear": clearing the scratch tree, "new",
\* "socket", "props": inside the try block, "prop_info": reading one
\* property descriptor, "none").
TypeEntry(family, rest, rank, is_node, registered) ==
    [name |-> family \o rest, family |-> family, rank |-> rank,
     is_node |-> is_node, registered |-> registered, fails |-> "none"]

\* the namespace, in alphabetical order
TypeNamespace ==
    <<TypeEntry("CompositorNode", "Blur", 1, TRUE, TRUE),
      TypeEntry("ShaderNode", "", 2, TRUE, FALSE),
      TypeEntry("ShaderNode", "MixShader", 3, TRUE, TRUE),
      TypeEntry("ShaderNode", "RGBCurve", 4, TRUE, TRUE),
      TypeEntry("ShaderNode", "TexImage", 5, TRUE, TRUE),
      TypeEntry("ShaderNode", "Tree", 6, FALSE, FALSE),
      TypeEntry("ShaderNode", "ValToRGB", 7, TRUE, TRUE)>>

\* lines 273-275: the test a type passes to become a candidate
is_candidate(t) ==
    /\ t.is_node
    /\ (t.family = "ShaderNode" \/ t.family = "ShaderNode")
    /\ t.registered

\* sorted(types, key=name)
RECURSIVE sorted_by_name(_)
sorted_by_name(types) ==
    IF types = {} THEN <<>>
    ELSE LET first == CHOOSE t \in types : \A u \in types : t.rank <= u.rank
         IN <<first>> \o sorted_by_name(types \ {first})

\* bpy.data.materials.new(name): the host appends a suffix to a taken name
new_material_name(mats, nm) ==
    IF nm \in DOMAIN mats THEN nm \o ".001" ELSE nm

ScratchMaterial(nodes) ==
    [use_nodes |-> TRUE, blend_method |-> "OPAQUE", use_backface_culling |-> FALSE,
     nodes |-> nodes, links |-> <<>>]

\* the first own property of the class, whose descriptor a "prop_info"
\* failure makes unreadable
broken_for(t) ==
    IF t.fails = "prop_info" /\ ClassDef(t.name).own # <<>>
    THEN {ClassDef(t.name).own[1]} ELSE {}

\* the loop without the try of line 283: an exception ends the call
after_visit_uncaught(info) == IF info = Raised THEN "raised" ELSE "scan"

\* lines 283, 334: an exception of the try block is caught and the loop goes on
after_visit(info) == "scan"

\* lines 332-335: the mapping after one iteration
record_entry(shader_nodes, c, info) ==
    IF info = Raised THEN shader_nodes
    ELSE [k \in {c} |-> info] @@ shader_nodes

\* lines 261-268
GenCreate ==
    /\ gen_pc = "start"
    /\ master_data' = [blender_version |-> join_version(BlenderVersion),
                       shader_nodes |-> Empty]
    /\ temp_mat' = new_material_name(materials, "_temp_master_export")
    /\ materials' = [k \in {new_material_name(materials, "_temp_master_export")} |->
                        ScratchMaterial(<<>>)] @@ materials
    /\ gen_pc' = "discover"
    /\ UNCHANGED <<registry, discovery_raises, gen_filepath, shader_node_types,
                   gen_index, visited, gen_result, files, norm_vars, node_vars,
                   export_vars, main_vars>>

\* lines 270-278; the walk over bpy.types is outside every try
GenDiscover ==
    /\ gen_pc = "discover"
    /\ IF discovery_raises
       THEN /\ gen_pc' = "raised"
            /\ gen_result' = Raised
            /\ UNCHANGED <<shader_node_types, gen_index>>
       ELSE /\ shader_node_types' =
                  sorted_by_name({registry[i] : i \in {j \in 1..Len(registry) :
                                                         is_candidate(registry[j])}})
            /\ gen_index' = 1
            /\ gen_pc' = "scan"
            /\ UNCHANGED gen_result
    /\ UNCHANGED <<registry, discovery_raises, gen_filepath, temp_mat, visited,
                   master_data, host_vars, norm_vars, node_vars, export_vars, main_vars>>

\* lines 280-335, one iteration; nodes.clear() is outside the try
GenVisit ==
    /\ gen_pc = "scan"
    /\ gen_index <= Len(shader_node_types)
    /\ LET node_class == shader_node_types[gen_index]
           info == catalog_node_info(node_class.name,
                        FreshNode(node_class.name, broken_for(node_class)),
                        node_class.fails)
       IN /\ visited' = visited \cup {node_class.name}
          /\ IF node_class.fails = "clear"
             THEN /\ gen_pc' = "raised"
                  /\ gen_result' = Raised
                  /\ UNCHANGED <<materials, master_data, gen_index>>
             ELSE /\ materials' =
                        [materials EXCEPT ![temp_mat].nodes =
                            IF node_class.fails = "new" THEN <<>>
                            ELSE <<[name |-> ClassDef(node_class.name).bl_label,
                                    bl_idname |-> node_class.name,
                                    ext_raises |-> FALSE, image |-> NoneVal]>>]
                  /\ master_data' =
                        [master_data EXCEPT !.shader_nodes =
                            record_entry(@, node_class.name, info)]
                  /\ gen_pc' = after_visit(info)
                  /\ gen_result' = IF after_visit(info) = "raised" THEN Raised
                                   ELSE gen_result
                  /\ gen_index' = gen_index + 1
    /\ UNCHANGED <<registry, discovery_raises, gen_filepath, temp_mat,
                   shader_node_types, files, norm_vars, node_vars, export_vars,
                   main_vars>>

\* lines 337-345
GenFinish ==
    /\ gen_pc = "scan"
    /\ gen_index > Len(shader_node_types)
    /\ materials' = [k \in DOMAIN materials \ {temp_mat} |-> materials[k]]
    /\ files' = IF gen_filepath = NoneVal THEN files
                ELSE [p \in {gen_filepath} |-> json_file(master_data, 4)] @@ files
    /\ gen_result' = master_data
    /\ gen_pc' = "returned"
    /\ UNCHANGED <<registry, discovery_raises, gen_filepath, temp_mat,
                   shader_node_types, gen_index, visited, master_data,
                   norm_vars, node_vars, export_vars, main_vars>>

\* the namespaces: the types that are never candidates, and any of the
\* shader node types up to MaxTypes of them, each with its failure
ShaderTypeRanks == {3, 4, 5, 7}

RegistryOf(chosen, fails) ==
    LET present == SelectSeq(TypeNamespace,
                        LAMBDA t : t.rank \notin ShaderTypeRanks \/ t.rank \in chosen)
    IN [i \in 1..Len(present) |->
          IF present[i].rank \in chosen
          THEN [present[i] EXCEPT !.fails = fails[present[i].rank]]
          ELSE present[i]]

FailureModes == {"none", "clear", "new", "socket", "props", "prop_info"}

Registries(modes) ==
    UNION {{RegistryOf(chosen, fails) : fails \in [chosen -> modes]} :
              chosen \in {c \in SUBSET ShaderTypeRanks : Cardinality(c) <= MaxTypes}}

PlainMaterial ==
    [use_nodes |-> FALSE, blend_method |-> "OPAQUE", use_backface_culling |-> FALSE,
     nodes |-> <<>>, links |-> <<>>]

CatalogInit ==
    /\ discovery_raises \in BOOLEAN
    /\ registry \in Registries(IF discovery_raises THEN {"none"} ELSE FailureModes)
    /\ materials \in {Empty, [k \in {"_temp_master_export"} |-> PlainMaterial]}
    /\ files = Empty
    /\ gen_filepath \in {NoneVal, StrVal("/tmp/blender_shader_nodes_master.json")}
    /\ gen_pc = "start"
    /\ temp_mat = NoneVal
    /\ shader_node_types = <<>>
    /\ gen_index = 0
    /\ visited = {}
    /\ master_data = NotCalled
    /\ gen_result = NotCalled
    /\ NormIdle /\ NodeIdle /\ ExportIdle /\ MainIdle

CatalogNext == GenCreate \/ GenDiscover \/ GenVisit \/ GenFinish

SpecCatalog == CatalogInit /\ [][CatalogNext]_vars

\* the candidates of the registry: the types the scan has to reach
Candidates == {registry[i].name : i \in {j \in 1..Len(registry) : is_candidate(registry[j])}}

FailsOf(nm) == (CHOOSE t \in ToSet(registry) : t.name = nm).fails

GenEnded == gen_pc \in {"returned", "raised"}

(* C1: once generate_master_shader_nodes_json has ended, by returning or   *)
(* by raising, the scratch material it created is no longer in the host's  *)
(* material collection, whichever steps of the scan failed.                *)
NoScratchMaterialLeft ==
    GenEnded => temp_mat \notin DOMAIN materials

(* C2: a candidate whose instantiation or serialization raises is skipped  *)
(* and the scan goes on: every candidate is visited, the keys of           *)
(* shader_nodes are exactly the candidates that did not fail, at most N of *)
(* them, and the call returns the catalog document.                        *)
FailedTypesSkipped ==
    (/\ GenEnded
     /\ ~discovery_raises
     /\ \A c \in Candidates : FailsOf(c) # "clear")
    => /\ gen_pc = "returned"
       /\ visited = Candidates
       /\ gen_result = master_data
       /\ DOMAIN gen_result.shader_nodes =
             {c \in Candidates : FailsOf(c) \notin {"new", "socket", "props"}}
       /\ Cardinality(DOMAIN gen_result.shader_nodes) <= Cardinality(Candidates)
       /\ \A c \in DOMAIN gen_result.shader_nodes :
             gen_result.shader_nodes[c].bl_idname = c

\* three candidates, the middle one failing to instantiate, the scan over:
\* the other two are in the catalog
FailedTypesSkippedWitness ==
    /\ gen_pc = "returned"
    /\ Cardinality(Candidates) = 3
    /\ \E c \in Candidates : FailsOf(c) = "new"
    /\ \E c \in Candidates : FailsOf(c) = "socket"
    /\ Cardinality(DOMAIN gen_result.shader_nodes) = 1

----------------------------------------------------------------------------
(* The main block, lines 348-363 *)

\* lines 349-353: the export of the active object's active material
MainExport ==
    /\ main_pc = "start"
    /\ IF context # NoneVal /\ context.active_material # NoneVal
       THEN LET nm == context.active_material.s
                o == export_material_nodes_to_json(materials, nm,
                        StrVal("/tmp/" \o nm \o "_nodes.json")) IN
            /\ request' = [material_name |-> nm,
                           filepath |-> StrVal("/tmp/" \o nm \o "_nodes.json")]
            /\ export_result' = o.result
            /\ nodes_visited' = o.visited
            /\ files' = o.written @@ files
            /\ main_pc' = IF o.result = Raised THEN "crashed" ELSE "report"
       ELSE /\ main_pc' = "generate"
            /\ UNCHANGED <<export_vars, files>>
    /\ UNCHANGED <<context, materials, cat_vars, norm_vars, node_vars>>

\* lines 354-356: len(mat_data['nodes']) and len(mat_data['links']);
\* subscripting None raises TypeError
MainReport ==
    /\ main_pc = "report"
    /\ main_pc' = IF export_result = NoneVal THEN "crashed" ELSE "generate"
    /\ UNCHANGED <<context, export_vars, host_vars, cat_vars, norm_vars, node_vars>>

\* lines 358-360: the call of generate_master_shader_nodes_json
MainGenerate ==
    /\ main_pc = "generate"
    /\ gen_pc = "idle"
    /\ gen_pc' = "start"
    /\ gen_filepath' = StrVal("/tmp/blender_shader_nodes_master.json")
    /\ main_pc' = "generating"
    /\ UNCHANGED <<context, registry, discovery_raises, temp_mat, shader_node_types,
                   gen_index, visited, master_data, gen_result, export_vars,
                   host_vars, norm_vars, node_vars>>

\* lines 362-363, or the exception of the call leaving the script
MainFinish ==
    /\ main_pc = "generating"
    /\ gen_pc \in {"returned", "raised"}
    /\ main_pc' = IF gen_pc = "returned" THEN "done" ELSE "crashed"
    /\ UNCHANGED <<context, export_vars, host_vars, cat_vars, norm_vars, node_vars>>

\* the materials the active object may carry: any tree without links
MainMaterials == {m \in HostMaterials : m.links = <<>>}

MainInit ==
    /\ context \in {NoneVal, [active_material |-> NoneVal],
                    [active_material |-> StrVal("Material")]}
    /\ main_pc = "start"
    /\ materials \in [{"Material"} -> MainMaterials]
    /\ files = Empty
    /\ discovery_raises = FALSE
    /\ registry \in Registries({"none", "clear"})
    /\ gen_filepath = NoneVal
    /\ gen_pc = "idle"
    /\ temp_mat = NoneVal
    /\ shader_node_types = <<>>
    /\ gen_index = 0
    /\ visited = {}
    /\ master_data = NotCalled
    /\ gen_result = NotCalled
    /\ NormIdle /\ NodeIdle /\ ExportIdle

MainNext ==
    \/ MainExport \/ MainReport \/ MainGenerate \/ MainFinish
    \/ GenCreate \/ GenDiscover \/ GenVisit \/ GenFinish

SpecMain == MainInit /\ [][MainNext]_vars

(* C10: the main block never uses a missing export result: with an active  *)
(* object that has an active material, it reaches the catalog generation   *)
(* without raising on the node and link counts of a None result.           *)
MainChecksExportResult ==
    (/\ context # NoneVal
     /\ context.active_material # NoneVal
     /\ main_pc = "crashed"
     /\ gen_pc = "idle")
    => export_result # NoneVal

====
